---- MODULE Spec2Model ----
(***************************************************************************)
(* A model of magentic's chatprompt module (src/magentic/chatprompt.py):   *)
(* BaseChatPromptFunction, its blocking and suspending subclasses, and     *)
(* the collaborators their calls go through (inspect.Signature.bind,       *)
(* Message.format, RetryChatModel, get_chat_model, the backend).           *)
(***************************************************************************)
EXTENDS Integers, Sequences, FiniteSets, TLC

VARIABLES
    pf,             \* the prompt-function's fields, as __init__ leaves them
    heap,           \* list objects by identity: pf's own lists and copies
    held,           \* identities of the lists the caller got from accessors
    default_model,  \* what get_chat_model() returns at this moment
    proxies,        \* per RetryChatModel object: retries it has used up
    inv,            \* per invocation of __call__: its frame
    got             \* what the caller's last direct format call or model read returned

vars == <<pf, heap, held, default_model, proxies, inv, got>>

-----------------------------------------------------------------------------
(* Bounds *)

MaxArgs == 2       \* positional plus keyword arguments of one call
MaxRetries == 2    \* largest max_retries a prompt-function is built with
NumInv == 2        \* invocations that may be outstanding together
MaxCopies == 2     \* accessor results the caller keeps

-----------------------------------------------------------------------------
(* Values *)

None == "None"
Values == {1, 2}
ParamNames == {"a", "b"}
KwNames == ParamNames \cup {"z"}
Models == {"m1", "m2"}
Contents == {"r1", "r2"}
Replies == Contents \cup {"validation", "fatal"}

NoKwargs == [n \in {} |-> 0]
Some(x) == [some |-> TRUE, val |-> x]
Nothing == [some |-> FALSE, val |-> <<>>]

\* str(v) as str.format applies it to an int argument
Str(v) == <<"0", "1", "2", "3", "4", "5", "6", "7", "8", "9">>[v + 1]

Lit(t) == [kind |-> "lit", text |-> t]
Ph(n) == [kind |-> "ph", text |-> n]
Template(role, content) == [role |-> role, content |-> content]

\* inspect.Parameter: POSITIONAL_OR_KEYWORD, default Nothing = Parameter.empty
Param(n, d) == [name |-> n, default |-> d]

\* def f(a: int, b: int = 2)
SigDefault == <<Param("a", Nothing), Param("b", Some(2))>>
\* def g(a: int, b: int)
SigRequired == <<Param("a", Nothing), Param("b", Nothing)>>
Signatures == {SigDefault, SigRequired}

MsgsHello == <<Template("system", <<Lit("You are helpful.")>>),
               Template("user", <<Lit("Hello "), Ph("a"), Lit(" and "), Ph("b")>>)>>
MsgsPlain == <<Template("user", <<Lit("Say hi")>>)>>
MsgsMissing == <<Template("user", <<Lit("Hello "), Ph("a")>>),
                 Template("user", <<Lit("Bye "), Ph("c")>>)>>
TemplateLists == {MsgsHello, MsgsPlain, MsgsMissing}

TypeInt == [origin |-> "int", args |-> <<>>]
TypeUnion == [origin |-> "Union", args |-> <<"str", "StopToolCall">>]

\* the positional and keyword arguments of one call
CallInputs ==
    {c \in [args : UNION {[1..n -> Values] : n \in 0..MaxArgs},
            kwargs : UNION {[S -> Values] : S \in SUBSET KwNames}] :
        Len(c.args) + Cardinality(DOMAIN c.kwargs) <= MaxArgs}

-----------------------------------------------------------------------------
(* inspect.Signature.bind and BoundArguments.apply_defaults *)

ParamIndex(sig, n) == CHOOSE k \in 1..Len(sig) : sig[k].name = n
SigNames(sig) == {sig[k].name : k \in 1..Len(sig)}

bind_partial(sig, args, kwargs) ==
    LET positional == {sig[k].name : k \in 1..Len(args) \cap 1..Len(sig)}
        given == positional \cup (DOMAIN kwargs \cap SigNames(sig))
    IN  IF \/ Len(args) > Len(sig)
           \/ positional \cap DOMAIN kwargs # {}
           \/ DOMAIN kwargs \ SigNames(sig) # {}
        THEN [ok |-> FALSE, arguments |-> NoKwargs]
        ELSE [ok |-> TRUE,
              arguments |-> [n \in given |->
                  IF n \in positional THEN args[ParamIndex(sig, n)]
                                      ELSE kwargs[n]]]

\* Signature.bind: too many positionals, a parameter given twice, an unknown
\* keyword or a missing required parameter raise TypeError
bind(sig, args, kwargs) ==
    LET positional == {sig[k].name : k \in 1..Len(args) \cap 1..Len(sig)}
        given == positional \cup (DOMAIN kwargs \cap SigNames(sig))
        missing == {k \in 1..Len(sig) :
                       sig[k].name \notin given /\ ~sig[k].default.some}
    IN  IF \/ Len(args) > Len(sig)
           \/ positional \cap DOMAIN kwargs # {}
           \/ DOMAIN kwargs \ SigNames(sig) # {}
           \/ missing # {}
        THEN [ok |-> FALSE, arguments |-> NoKwargs]
        ELSE [ok |-> TRUE,
              arguments |-> [n \in given |->
                  IF n \in positional THEN args[ParamIndex(sig, n)]
                                      ELSE kwargs[n]]]

no_defaults(sig, arguments) == arguments

\* BoundArguments.apply_defaults: every parameter left unset gets its default
apply_defaults(sig, arguments) ==
    LET defaulted == {sig[k].name : k \in {j \in 1..Len(sig) : sig[j].default.some}}
    IN  [n \in DOMAIN arguments \cup defaulted |->
            IF n \in DOMAIN arguments THEN arguments[n]
            ELSE sig[ParamIndex(sig, n)].default.val]

-----------------------------------------------------------------------------
(* Message.format: str.format over the content template *)

Placeholders(template) ==
    {template.content[k].text :
        k \in {j \in 1..Len(template.content) : template.content[j].kind = "ph"}}

RECURSIVE Substitute(_, _)
Substitute(content, arguments) ==
    IF content = <<>> THEN ""
    ELSE LET t == Head(content)
         IN  (IF t.kind = "lit" THEN t.text ELSE Str(arguments[t.text]))
                 \o Substitute(Tail(content), arguments)

message_format(template, arguments) ==
    IF Placeholders(template) \subseteq DOMAIN arguments
    THEN [ok |-> TRUE, error |-> "",
          message |-> [role |-> template.role,
                       content |-> Substitute(template.content, arguments)]]
    ELSE [ok |-> FALSE, error |-> "KeyError",
          message |-> [role |-> template.role, content |-> ""]]

-----------------------------------------------------------------------------
(* BaseChatPromptFunction *)

\* split_union_type: the members of a union, one level; else the type itself
split_union_type(t) == IF t.origin = "Union" THEN t.args ELSE <<t.origin>>

FunctionsRef == [obj |-> "self._functions", k |-> 0]
ReturnTypesRef == [obj |-> "self._return_types", k |-> 0]
CopyRef(k) == [obj |-> "copy", k |-> k]
CopyRefs == {CopyRef(k) : k \in 1..MaxCopies}

\* __init__: the fields, and the two lists the object owns
BaseChatPromptFunction(name, parameters, return_type, messages, functions, stop, max_retries, model_arg) ==
    [fields |-> [_name |-> name,
                 _signature |-> [parameters |-> parameters,
                                 return_annotation |-> return_type],
                 _messages |-> messages,
                 _functions |-> FunctionsRef,
                 _stop |-> stop,
                 _max_retries |-> max_retries,
                 _model |-> model_arg,
                 _return_types |-> ReturnTypesRef],
     lists |-> [r \in {FunctionsRef, ReturnTypesRef} |->
                   IF r = FunctionsRef
                   THEN (IF functions.some /\ functions.val # <<>>
                         THEN functions.val ELSE <<>>)
                   ELSE split_union_type(return_type)]]

functions_alias(self, h, fresh) == [ref |-> self._functions, heap |-> h]

\* property functions: self._functions.copy()
functions(self, h, fresh) ==
    [ref |-> fresh,
     heap |-> [r \in DOMAIN h \cup {fresh} |->
                  IF r = fresh THEN h[self._functions] ELSE h[r]]]

\* property return_types: self._return_types.copy()
return_types(self, h, fresh) ==
    [ref |-> fresh,
     heap |-> [r \in DOMAIN h \cup {fresh} |->
                  IF r = fresh THEN h[self._return_types] ELSE h[r]]]

NoHandle == [kind |-> "", chat_model |-> "", max_retries |-> 0, proxy |-> 0]
ChatModel(m) == [kind |-> "ChatModel", chat_model |-> m, max_retries |-> 0, proxy |-> 0]
RetryChatModel(m, n, fresh) ==
    [kind |-> "RetryChatModel", chat_model |-> m, max_retries |-> n, proxy |-> fresh]

model_positive_only(self, default, fresh) ==
    LET underlying == IF self._model # None THEN self._model ELSE default
    IN  IF self._max_retries > 0
        THEN RetryChatModel(underlying, self._max_retries, fresh)
        ELSE ChatModel(underlying)

model_never_wraps(self, default, fresh) ==
    ChatModel(IF self._model # None THEN self._model ELSE default)

model_default_first(self, default, fresh) ==
    IF self._max_retries # 0
    THEN RetryChatModel(default, self._max_retries, fresh)
    ELSE ChatModel(default)

model_cached_proxy(self, default, fresh) ==
    LET underlying == IF self._model # None THEN self._model ELSE default
    IN  IF self._max_retries # 0
        THEN RetryChatModel(underlying, self._max_retries, 1)
        ELSE ChatModel(underlying)

\* property model: `fresh` is the identity of the RetryChatModel it constructs
model(self, default, fresh) ==
    LET underlying == IF self._model # None THEN self._model ELSE default
    IN  IF self._max_retries # 0
        THEN RetryChatModel(underlying, self._max_retries, fresh)
        ELSE ChatModel(underlying)

FormatError(e) == [ok |-> FALSE, error |-> e, arguments |-> NoKwargs, messages |-> <<>>]

RECURSIVE RawText(_)
RawText(content) ==
    IF content = <<>> THEN ""
    ELSE LET t == Head(content)
         IN  (IF t.kind = "lit" THEN t.text ELSE "{" \o t.text \o "}")
                 \o RawText(Tail(content))

format_unrendered(self, args, kwargs) ==
    LET b == bind(self._signature.parameters, args, kwargs)
    IN  IF ~b.ok THEN FormatError("TypeError")
        ELSE [ok |-> TRUE, error |-> "",
              arguments |-> apply_defaults(self._signature.parameters, b.arguments),
              messages |-> [k \in 1..Len(self._messages) |->
                  [role |-> self._messages[k].role,
                   content |-> RawText(self._messages[k].content)]]]

\* format: bind, apply_defaults, then format every message template
format(self, args, kwargs) ==
    LET b == bind(self._signature.parameters, args, kwargs)
    IN  IF ~b.ok THEN FormatError("TypeError")
        ELSE LET arguments == apply_defaults(self._signature.parameters, b.arguments)
                 out == [k \in 1..Len(self._messages) |->
                            message_format(self._messages[k], arguments)]
             IN  IF \A k \in 1..Len(out) : out[k].ok
                 THEN [ok |-> TRUE, error |-> "", arguments |-> arguments,
                       messages |-> [k \in 1..Len(out) |-> out[k].message]]
                 ELSE [FormatError("KeyError") EXCEPT !.arguments = arguments]

-----------------------------------------------------------------------------
(* ChatPromptFunction.__call__ and AsyncChatPromptFunction.__call__ *)

Classes == {"ChatPromptFunction", "AsyncChatPromptFunction"}

Request(method, messages, fns, output_types, stop) ==
    [method |-> method, messages |-> messages, functions |-> fns,
     output_types |-> output_types, stop |-> stop]

CallStepsRenderFirst == <<"format", "model", "complete">>

\* the order in which __call__ evaluates self.model.complete(messages=self.format(...)):
\* the attribute self.model, then the argument self.format(...), then the call
CallSteps == <<"model", "format", "complete">>

StepAfter(step) ==
    LET k == CHOOSE j \in 1..Len(CallSteps) : CallSteps[j] = step
    IN  IF k < Len(CallSteps) THEN CallSteps[k + 1] ELSE "awaiting"

\* self.model.complete(messages=..., functions=self._functions,
\*                     output_types=self._return_types, stop=self._stop)
ChatPromptFunction_call(self, h, messages) ==
    Request("complete", messages, h[self._functions], h[self._return_types], self._stop)

AsyncChatPromptFunction_call_no_functions(self, h, messages) ==
    Request("acomplete", messages, <<>>, h[self._return_types], self._stop)

\* await self.model.acomplete(... the same arguments ...)
AsyncChatPromptFunction_call(self, h, messages) ==
    Request("acomplete", messages, h[self._functions], h[self._return_types], self._stop)

-----------------------------------------------------------------------------
(* RetryChatModel and the backend *)

\* what the proxy (or, unwrapped, the backend itself) does with a reply:
\* a content is returned, a validation failure is retried while the proxy has
\* retries left, every other failure is raised
OnReply(handle, used, reply) ==
    IF reply \in Contents THEN "return"
    ELSE IF reply = "validation" /\ handle.kind = "RetryChatModel"
                                 /\ used < handle.max_retries THEN "retry"
    ELSE "raise"

\* the corrective context a retry appends to the messages it sends next
make_retry_messages(messages, reply) ==
    Append(messages, [role |-> "retry", content |-> reply])

ErrorOf(reply) == IF reply = "validation" THEN "ValidationError" ELSE "FatalError"

-----------------------------------------------------------------------------
(* The state machine *)

IdleFrame ==
    [pc |-> "idle", cls |-> "", args |-> <<>>, kwargs |-> NoKwargs,
     handle |-> NoHandle, rendered |-> FALSE, arguments |-> NoKwargs,
     messages |-> <<>>, requests |-> <<>>, replies |-> <<>>,
     outcome |-> "", result |-> ""]

NoResult == [ok |-> FALSE, error |-> "", arguments |-> NoKwargs, messages |-> <<>>]

RetryCounts == {-1} \cup 0..MaxRetries

\* the state after construction, for the given constructor arguments
Constructed(invs, sigs, templates, retries, options) ==
    \E sig \in sigs, msgs \in templates, n \in retries, opt \in options,
       m \in {None} \cup Models, d \in Models :
        LET new == BaseChatPromptFunction("f", sig, opt.return_type, msgs,
                                          opt.functions, opt.stop, n, m)
        IN  /\ pf = new.fields
            /\ heap = new.lists
            /\ held = {}
            /\ default_model = d
            /\ proxies = [k \in invs |-> 0]
            /\ inv = [i \in invs |-> IdleFrame]
            /\ got = [format |-> NoResult, model |-> NoHandle]

OptionsNone == [functions |-> Nothing, stop |-> Nothing, return_type |-> TypeInt]
OptionsAll == [functions |-> Some(<<"f1">>), stop |-> Some(<<"END">>), return_type |-> TypeUnion]

Init == Constructed({1}, Signatures, TemplateLists, RetryCounts, {OptionsNone, OptionsAll})

\* __call__ entered: the span's arguments are self._signature.bind(*args, **kwargs)
Call(i, inputs) ==
    /\ inv[i].pc = "idle"
    /\ \E c \in inputs, cls \in Classes :
        LET b == bind(pf._signature.parameters, c.args, c.kwargs)
            frame == [IdleFrame EXCEPT !.cls = cls, !.args = c.args, !.kwargs = c.kwargs]
        IN  inv' = [inv EXCEPT ![i] =
                IF b.ok THEN [frame EXCEPT !.pc = CallSteps[1]]
                ELSE [frame EXCEPT !.pc = "done", !.outcome = "TypeError"]]
    /\ UNCHANGED <<pf, heap, held, default_model, proxies, got>>

\* self.model
Model(i) ==
    /\ inv[i].pc = "model"
    /\ LET h == model(pf, default_model, i)
       IN  /\ inv' = [inv EXCEPT ![i].handle = h, ![i].pc = StepAfter("model")]
           /\ proxies' = IF h.kind = "RetryChatModel"
                         THEN [proxies EXCEPT ![h.proxy] = 0] ELSE proxies
    /\ UNCHANGED <<pf, heap, held, default_model, got>>

\* self.format(*args, **kwargs)
Format(i) ==
    /\ inv[i].pc = "format"
    /\ LET r == format(pf, inv[i].args, inv[i].kwargs)
       IN  inv' = [inv EXCEPT ![i] =
               IF r.ok
               THEN [@ EXCEPT !.rendered = TRUE, !.arguments = r.arguments,
                              !.messages = r.messages, !.pc = StepAfter("format")]
               ELSE [@ EXCEPT !.arguments = r.arguments, !.pc = "done",
                              !.outcome = r.error]]
    /\ UNCHANGED <<pf, heap, held, default_model, proxies, got>>

\* .complete(...) / await .acomplete(...): the first request reaches the backend
Complete(i) ==
    /\ inv[i].pc = "complete"
    /\ LET req == IF inv[i].cls = "ChatPromptFunction"
                  THEN ChatPromptFunction_call(pf, heap, inv[i].messages)
                  ELSE AsyncChatPromptFunction_call(pf, heap, inv[i].messages)
       IN  inv' = [inv EXCEPT ![i].pc = StepAfter("complete"),
                              ![i].requests = <<[req |-> req, backend |-> inv[i].handle.chat_model]>>]
    /\ UNCHANGED <<pf, heap, held, default_model, proxies, got>>

\* the backend answers the outstanding request; return message.content
Reply(i) ==
    /\ inv[i].pc = "awaiting"
    /\ \E reply \in Replies :
        LET h == inv[i].handle
            what == OnReply(h, IF h.kind = "RetryChatModel" THEN proxies[h.proxy] ELSE 0, reply)
            last == inv[i].requests[Len(inv[i].requests)]
            again == [last EXCEPT !.req.messages = make_retry_messages(@, reply)]
        IN  /\ inv' = [inv EXCEPT ![i] =
                   CASE what = "return" ->
                            [@ EXCEPT !.replies = Append(@, reply), !.pc = "done",
                                      !.outcome = "ok", !.result = reply]
                     [] what = "retry"  ->
                            [@ EXCEPT !.replies = Append(@, reply),
                                      !.requests = Append(@, again)]
                     [] OTHER ->
                            [@ EXCEPT !.replies = Append(@, reply), !.pc = "done",
                                      !.outcome = ErrorOf(reply)]]
            /\ proxies' = IF what = "retry"
                          THEN [proxies EXCEPT ![h.proxy] = @ + 1] ELSE proxies
    /\ UNCHANGED <<pf, heap, held, default_model, got>>

\* the caller has the result or the error; the frame is gone
Return(i) ==
    /\ inv[i].pc = "done"
    /\ inv' = [inv EXCEPT ![i] = IdleFrame]
    /\ UNCHANGED <<pf, heap, held, default_model, proxies, got>>

\* the process-wide default backend is changed
SetDefault ==
    /\ \E m \in Models \ {default_model} : default_model' = m
    /\ UNCHANGED <<pf, heap, held, proxies, inv, got>>

Next ==
    \/ \E i \in DOMAIN inv : Call(i, CallInputs)
    \/ \E i \in DOMAIN inv : Model(i)
    \/ \E i \in DOMAIN inv : Format(i)
    \/ \E i \in DOMAIN inv : Complete(i)
    \/ \E i \in DOMAIN inv : Reply(i)
    \/ \E i \in DOMAIN inv : Return(i)
    \/ SetDefault

Spec == Init /\ [][Next]_vars

-----------------------------------------------------------------------------
(* Several invocations outstanding together (SpecConc) *)

\* f(1) and f(): one call that binds and one that does not
ConcInputs == {[args |-> <<1>>, kwargs |-> NoKwargs], [args |-> <<>>, kwargs |-> NoKwargs]}

InitConc == Constructed(1..NumInv, {SigDefault}, {MsgsHello}, {0, 1, 2}, {OptionsAll})

NextConc ==
    \/ \E i \in DOMAIN inv : Call(i, ConcInputs)
    \/ \E i \in DOMAIN inv : Model(i)
    \/ \E i \in DOMAIN inv : Format(i)
    \/ \E i \in DOMAIN inv : Complete(i)
    \/ \E i \in DOMAIN inv : Reply(i)
    \/ SetDefault

SpecConc == InitConc /\ [][NextConc]_vars

-----------------------------------------------------------------------------
(* The caller reads the accessors and changes what they returned (SpecFrame) *)

FreshCopy == CHOOSE r \in CopyRefs : r \notin DOMAIN heap

\* the caller reads self.functions and keeps the list
GetFunctions ==
    /\ \E r \in CopyRefs : r \notin DOMAIN heap
    /\ LET out == functions(pf, heap, FreshCopy)
       IN  /\ heap' = out.heap
           /\ held' = held \cup {out.ref}
    /\ UNCHANGED <<pf, default_model, proxies, inv, got>>

\* the caller reads self.return_types and keeps the list
GetReturnTypes ==
    /\ \E r \in CopyRefs : r \notin DOMAIN heap
    /\ LET out == return_types(pf, heap, FreshCopy)
       IN  /\ heap' = out.heap
           /\ held' = held \cup {out.ref}
    /\ UNCHANGED <<pf, default_model, proxies, inv, got>>

\* the caller reads self.model
GetModel ==
    /\ got' = [format |-> NoResult, model |-> model(pf, default_model, 0)]
    /\ UNCHANGED <<pf, heap, held, default_model, proxies, inv>>

\* the caller calls self.format(*args, **kwargs) directly
FormatCall(inputs) ==
    /\ \E c \in inputs :
        got' = [format |-> format(pf, c.args, c.kwargs), model |-> NoHandle]
    /\ UNCHANGED <<pf, heap, held, default_model, proxies, inv>>

\* the caller appends a new element to, or clears, a list an accessor gave it
Mutate ==
    /\ \E r \in held :
        \/ /\ \A k \in 1..Len(heap[r]) : heap[r][k] # "x"
           /\ heap' = [heap EXCEPT ![r] = Append(@, "x")]
        \/ /\ heap[r] # <<>>
           /\ heap' = [heap EXCEPT ![r] = <<>>]
    /\ UNCHANGED <<pf, held, default_model, proxies, inv, got>>

InitFrame == Constructed({1}, {SigDefault}, {MsgsHello}, {0, 1}, {OptionsNone, OptionsAll})

NextFrame ==
    \/ \E i \in DOMAIN inv : Call(i, ConcInputs)
    \/ \E i \in DOMAIN inv : Model(i)
    \/ \E i \in DOMAIN inv : Format(i)
    \/ \E i \in DOMAIN inv : Complete(i)
    \/ \E i \in DOMAIN inv : Reply(i)
    \/ \E i \in DOMAIN inv : Return(i)
    \/ GetFunctions
    \/ GetReturnTypes
    \/ GetModel
    \/ FormatCall(ConcInputs)
    \/ Mutate

SpecFrame == InitFrame /\ [][NextFrame]_vars

-----------------------------------------------------------------------------
(* Properties of one invocation at a time (Spec) *)

Given(i) ==
    {pf._signature.parameters[k].name :
        k \in 1..Len(inv[i].args) \cap 1..Len(pf._signature.parameters)}
      \cup DOMAIN inv[i].kwargs

Required == {k \in 1..Len(pf._signature.parameters) :
                ~pf._signature.parameters[k].default.some}

FewerThanRequired(i) ==
    Len(inv[i].args) + Cardinality(DOMAIN inv[i].kwargs) < Cardinality(Required)

UnknownKeyword(i) ==
    DOMAIN inv[i].kwargs \ SigNames(pf._signature.parameters) # {}

BackendCalls(i) == Len(inv[i].requests)

\* C1: a call with fewer arguments than there are required parameters, or with
\* an unknown keyword, ends in the binding error (TypeError) and no request is
\* ever sent to the backend for it, whatever max_retries and the class are.
C1_BindingErrorBeforeBackend ==
    \A i \in DOMAIN inv :
        (inv[i].pc # "idle" /\ (FewerThanRequired(i) \/ UnknownKeyword(i)))
            => /\ inv[i].pc = "done"
               /\ inv[i].outcome = "TypeError"
               /\ BackendCalls(i) = 0
               /\ inv[i].replies = <<>>

C1_Witness ==
    \E i \in DOMAIN inv :
        /\ inv[i].pc = "done" /\ inv[i].outcome = "TypeError"
        /\ FewerThanRequired(i) /\ ~UnknownKeyword(i)
        /\ inv[i].cls = "AsyncChatPromptFunction"
        /\ pf._max_retries > 0

AllValidation(i) ==
    \A k \in 1..Len(inv[i].replies) : inv[i].replies[k] = "validation"

\* C2: with max_retries = N >= 0 and a backend that answers every request with
\* a validation failure, the invocation sends exactly N + 1 requests and then
\* ends in the validation error; while fewer than N + 1 have failed it is still
\* waiting on the next one. With N = 0 that is one request.
C2_RetryBound ==
    \A i \in DOMAIN inv :
        (pf._max_retries >= 0 /\ AllValidation(i))
            => /\ inv[i].pc = "awaiting"
                   => /\ Len(inv[i].replies) <= pf._max_retries
                      /\ BackendCalls(i) = Len(inv[i].replies) + 1
               /\ (inv[i].pc = "done" /\ BackendCalls(i) > 0)
                   => /\ BackendCalls(i) = pf._max_retries + 1
                      /\ Len(inv[i].replies) = pf._max_retries + 1
                      /\ inv[i].outcome = "ValidationError"

C2_Witness ==
    \E i \in DOMAIN inv :
        /\ inv[i].pc = "done" /\ inv[i].outcome = "ValidationError"
        /\ AllValidation(i)
        /\ pf._max_retries >= 2
        /\ BackendCalls(i) = pf._max_retries + 1

Resolved(i) == inv[i].handle # NoHandle

\* C3 as claimed: the handle is the retry proxy exactly when max_retries > 0,
\* and the bare underlying handle for every other count.
C3_WrappedIffPositive ==
    \A i \in DOMAIN inv :
        Resolved(i) => (inv[i].handle.kind = "RetryChatModel" <=> pf._max_retries > 0)

\* C3 amended: the handle is the retry proxy exactly when max_retries is not 0
\* (negative counts wrap too); for 0 it is the underlying handle itself, the
\* explicit one when there is one and else a process-wide default.
C3_WrappedIffNonZero ==
    \A i \in DOMAIN inv :
        Resolved(i) =>
            /\ inv[i].handle.kind = "RetryChatModel" <=> pf._max_retries # 0
            /\ inv[i].handle.kind = "RetryChatModel"
                   => inv[i].handle.max_retries = pf._max_retries
            /\ pf._max_retries = 0
                   => \E m \in Models : /\ inv[i].handle = ChatModel(m)
                                        /\ pf._model # None => m = pf._model

C3_Witness ==
    \E i \in DOMAIN inv :
        /\ Resolved(i)
        /\ pf._max_retries < 0
        /\ inv[i].handle.kind = "RetryChatModel"

Formatted(i) == inv[i].rendered \/ inv[i].outcome = "KeyError"

OmittedDefaults(i) ==
    {k \in 1..Len(pf._signature.parameters) :
        /\ pf._signature.parameters[k].default.some
        /\ pf._signature.parameters[k].name \notin Given(i)}

WithKeyword(kwargs, n, v) ==
    [m \in DOMAIN kwargs \cup {n} |-> IF m = n THEN v ELSE kwargs[m]]

\* C6: when a call omits a defaulted parameter, the bound arguments and the
\* rendered messages (or the rendering error) are those of the call that also
\* passes that parameter's default explicitly; f(a, b=2) called as f(1) binds
\* {a: 1, b: 2}.
C6_OmittedDefaultSameAsExplicit ==
    \A i \in DOMAIN inv :
        Formatted(i) =>
            /\ \A k \in OmittedDefaults(i) :
                LET p == pf._signature.parameters[k]
                    explicit == format(pf, inv[i].args,
                                       WithKeyword(inv[i].kwargs, p.name, p.default.val))
                IN  /\ explicit.ok = inv[i].rendered
                    /\ explicit.arguments = inv[i].arguments
                    /\ explicit.messages = inv[i].messages
            /\ (pf._signature.parameters = SigDefault
                    /\ inv[i].args = <<1>> /\ inv[i].kwargs = NoKwargs)
                   => inv[i].arguments = [n \in {"a", "b"} |-> IF n = "a" THEN 1 ELSE 2]

C6_Witness ==
    \E i \in DOMAIN inv :
        /\ inv[i].rendered
        /\ OmittedDefaults(i) # {}
        /\ inv[i].args = <<1>> /\ inv[i].kwargs = NoKwargs
        /\ inv[i].arguments = [n \in {"a", "b"} |-> IF n = "a" THEN 1 ELSE 2]
        /\ \E k \in 1..Len(inv[i].messages) : inv[i].messages[k].content = "Hello 1 and 2"

MissingPlaceholder ==
    \E k \in 1..Len(pf._messages) :
        ~(Placeholders(pf._messages[k]) \subseteq SigNames(pf._signature.parameters))

\* C7: when a template names a placeholder that is not a bound argument, the
\* invocation ends in the template error (KeyError) with no request sent to
\* the backend, also when max_retries > 0: it never gets as far as the call.
C7_TemplateErrorNoBackend ==
    \A i \in DOMAIN inv :
        /\ inv[i].outcome = "KeyError"
               => inv[i].pc = "done" /\ BackendCalls(i) = 0 /\ inv[i].replies = <<>>
        /\ MissingPlaceholder
               => /\ inv[i].pc \notin {"complete", "awaiting"}
                  /\ BackendCalls(i) = 0
                  /\ inv[i].pc = "done" => inv[i].outcome \in {"TypeError", "KeyError"}

C7_Witness ==
    \E i \in DOMAIN inv :
        /\ inv[i].pc = "done" /\ inv[i].outcome = "KeyError"
        /\ MissingPlaceholder
        /\ pf._max_retries > 0
        /\ inv[i].handle.kind = "RetryChatModel"

\* C8 as claimed: the handle is not resolved before the messages are rendered,
\* and a rendering failure happens with no handle resolved.
C8_RenderBeforeResolve ==
    \A i \in DOMAIN inv :
        /\ Resolved(i) => inv[i].rendered
        /\ inv[i].outcome = "KeyError" => ~Resolved(i)

\* C8 amended: the arguments are bound first, then the handle is resolved,
\* then the messages are rendered, then the backend is invoked; a binding
\* failure happens with no handle resolved and nothing rendered, and a
\* rendering failure happens after the handle was resolved.
C8_BindResolveRenderInvoke ==
    \A i \in DOMAIN inv :
        /\ inv[i].outcome = "TypeError" => ~Resolved(i) /\ ~Formatted(i)
        /\ Formatted(i) => Resolved(i)
        /\ inv[i].pc = "format" => Resolved(i)
        /\ BackendCalls(i) > 0 => Resolved(i) /\ inv[i].rendered

C8_Witness ==
    \E i \in DOMAIN inv :
        /\ inv[i].pc = "done" /\ inv[i].outcome = "KeyError"
        /\ Resolved(i)
        /\ BackendCalls(i) = 0

-----------------------------------------------------------------------------
(* Properties of invocations outstanding together (SpecConc) *)

\* C4: the handle is resolved anew by every invocation: the step that resolves
\* it yields the explicit handle when there is one, whatever the default is,
\* and else the process-wide default in effect at that step; every request of
\* the invocation then goes to that backend.
C4_ResolvedEveryInvocation ==
    /\ [][\A i \in DOMAIN inv :
            (~Resolved(i) /\ Resolved(i)')
                => inv'[i].handle.chat_model =
                       (IF pf._model # None THEN pf._model ELSE default_model)]_vars
    /\ [](\A i \in DOMAIN inv : \A k \in 1..Len(inv[i].requests) :
            inv[i].requests[k].backend = inv[i].handle.chat_model)

C4_Witness ==
    /\ pf._model = None
    /\ \E i, j \in DOMAIN inv :
        /\ inv[i].pc = "done" /\ inv[j].pc = "done"
        /\ BackendCalls(i) > 0 /\ BackendCalls(j) > 0
        /\ inv[i].requests[1].backend # inv[j].requests[1].backend

SameButMethod(r, q) ==
    /\ r.req.messages = q.req.messages
    /\ r.req.functions = q.req.functions
    /\ r.req.output_types = q.req.output_types
    /\ r.req.stop = q.req.stop

Started(i) == inv[i].pc \in {"awaiting", "done"}

\* C5: an invocation of the blocking class and one of the suspending class, of
\* the same configuration, with the same arguments and the same backend
\* replies so far, are at the same point with the same result or the same
\* error, after the same number of requests, each with the same messages,
\* side-callables, output variants and stop list.
C5_BlockingSuspendingAgree ==
    \A i, j \in DOMAIN inv :
        ( /\ inv[i].cls = "ChatPromptFunction"
          /\ inv[j].cls = "AsyncChatPromptFunction"
          /\ Started(i) /\ Started(j)
          /\ inv[i].args = inv[j].args /\ inv[i].kwargs = inv[j].kwargs
          /\ inv[i].replies = inv[j].replies )
            => /\ inv[i].pc = inv[j].pc
               /\ inv[i].outcome = inv[j].outcome
               /\ inv[i].result = inv[j].result
               /\ BackendCalls(i) = BackendCalls(j)
               /\ \A k \in 1..BackendCalls(i) :
                      /\ SameButMethod(inv[i].requests[k], inv[j].requests[k])
                      /\ inv[i].requests[k].req.method = "complete"
                      /\ inv[j].requests[k].req.method = "acomplete"

C5_Witness ==
    \E i, j \in DOMAIN inv :
        /\ inv[i].cls = "ChatPromptFunction" /\ inv[j].cls = "AsyncChatPromptFunction"
        /\ inv[i].pc = "done" /\ inv[j].pc = "done"
        /\ inv[i].args = inv[j].args /\ inv[i].replies = inv[j].replies
        /\ inv[i].replies = <<"validation", "r2">>
        /\ inv[i].result = "r2" /\ inv[j].result = "r2"
        /\ inv[i].requests[1].req.functions # <<>>

\* one invocation on its own, against the given replies: where it stands
RECURSIVE RunAlone(_, _, _)
RunAlone(replies, budget, used) ==
    IF replies = <<>>
    THEN [pc |-> "awaiting", outcome |-> "", result |-> "", calls |-> used + 1]
    ELSE IF Head(replies) \in Contents
    THEN [pc |-> "done", outcome |-> "ok", result |-> Head(replies), calls |-> used + 1]
    ELSE IF Head(replies) = "validation" /\ used < budget
    THEN RunAlone(Tail(replies), budget, used + 1)
    ELSE [pc |-> "done", outcome |-> ErrorOf(Head(replies)), result |-> "",
          calls |-> used + 1]

\* C10: however the invocations interleave, each one that has reached the
\* backend stands where it would stand alone against the replies it got: the
\* same result or error after the same number of requests, with its own budget
\* of max_retries retries.
C10_InvocationsIndependent ==
    \A i \in DOMAIN inv :
        (Started(i) /\ BackendCalls(i) > 0)
            => LET alone == RunAlone(inv[i].replies, pf._max_retries, 0)
               IN  /\ BackendCalls(i) = alone.calls
                   /\ inv[i].pc = alone.pc
                   /\ inv[i].outcome = alone.outcome
                   /\ inv[i].result = alone.result
                   /\ Len(inv[i].replies) =
                          (IF alone.pc = "done" THEN alone.calls ELSE alone.calls - 1)

C10_Witness ==
    \E i, j \in DOMAIN inv :
        /\ i # j
        /\ inv[i].cls = "AsyncChatPromptFunction" /\ inv[j].cls = "AsyncChatPromptFunction"
        /\ pf._max_retries = 1
        /\ inv[i].pc = "awaiting" /\ inv[i].replies = <<"validation">>
        /\ inv[j].pc = "awaiting" /\ inv[j].replies = <<"validation">>
        /\ inv[i].handle.proxy # inv[j].handle.proxy

-----------------------------------------------------------------------------
(* Properties of the stored configuration (SpecFrame) *)

\* C9: no step (of an invocation, a direct format call, an accessor read, a
\* change to a list an accessor returned) changes a field of the
\* prompt-function or the contents of its two lists, and every request carries
\* the stored side-callables and output variants.
C9_ConfigurationUnchanged ==
    /\ [][/\ pf' = pf
          /\ heap'[pf._functions] = heap[pf._functions]
          /\ heap'[pf._return_types] = heap[pf._return_types]]_vars
    /\ [](\A i \in DOMAIN inv : \A k \in 1..Len(inv[i].requests) :
            /\ inv[i].requests[k].req.functions = heap[pf._functions]
            /\ inv[i].requests[k].req.output_types = heap[pf._return_types]
            /\ inv[i].requests[k].req.stop = pf._stop)

C9_Witness ==
    /\ \E r \in held : heap[r] = <<"f1", "x">>
    /\ \E r \in held : heap[r] = <<>>
    /\ heap[pf._functions] = <<"f1">>
    /\ got.format.ok
    /\ \E i \in DOMAIN inv :
        /\ inv[i].pc = "done" /\ inv[i].outcome = "ok"
        /\ inv[i].requests[1].req.functions = <<"f1">>

====
